---- MODULE Spec2Model ----
(***************************************************************************)
(* Client-side data synchronisation of the product catalogue:              *)
(* the query cache behind useProducts / useProduct / useCategories, the    *)
(* optimistic update and delete mutations of useUpdateProduct and          *)
(* useDeleteProduct, the detail modal that drives them, window-focus       *)
(* revalidation, the product list view and the authentication provider.    *)
(*                                                                         *)
(* Everything runs on one event loop: each action below is one handler or  *)
(* one promise resolution, run to completion.  Network requests are the    *)
(* only suspension points.  An optional value (JS undefined / null / a     *)
(* value) is the empty or the one-element sequence.  Time is counted in    *)
(* minutes.  Garbage collection of unobserved entries (gcTime) is outside  *)
(* this model.                                                             *)
(*                                                                         *)
(* Three specifications share the variables; each moves its own part and   *)
(* leaves the rest as Init has it:                                         *)
(*   Spec      the query cache, the reads, the mutations and the detail    *)
(*             modal, the modal being given the productId its props        *)
(*             declare;                                                    *)
(*   SpecList  ProductList as written: filters, pages, card clicks, and    *)
(*             the modal with the props ProductList's JSX passes to it;    *)
(*   SpecAuth  AuthProvider: login, logout, page refresh, session restore. *)
(***************************************************************************)
EXTENDS Integers, Sequences, FiniteSets, TLC

\* ------------------------------------------------------------------ bounds
MaxEvents == 11         \* steps considered per page load
MaxClock == 40          \* the clock stops advancing here
MaxCancelled == 1       \* cancelled requests still on the wire, per key
MaxMutations == 2       \* mutations in flight at the same time
MaxProducts == 21       \* products the service may list (product list view)

\* ------------------------------------------------------- program constants
StaleTimeProducts == 0      \* minutes
StaleTimeProduct == 0       \* minutes
StaleTimeCategories == 30   \* minutes (1000 * 60 * 30 ms)
ITEMS_PER_PAGE == 8

\* The query client's retry option for reads: a failed read is not retried.
Retry == 0

\* --------------------------------------------------------- optional values
Undefined == << >>
Some(v) == << v >>
IsDefined(o) == Len(o) = 1
Get(o) == o[1]

\* ---------------------------------------------------------------- products
\* What the remote service holds.  It does not persist writes, so every
\* GET answers from this list.
ServerProducts ==
  << [id |-> 1, title |-> "A", price |-> 10, image |-> "img1"],
     [id |-> 2, title |-> "A", price |-> 20, image |-> "img2"] >>

ServerCategories == << "c1" >>

ProductIds == { ServerProducts[n].id : n \in 1..Len(ServerProducts) }

ServerProduct(i) ==
  LET n == CHOOSE m \in 1..Len(ServerProducts) : ServerProducts[m].id = i
  IN  ServerProducts[n]

\* The edit form's payload (handleSave sends every editable field).
Payloads ==
  { [title |-> "B", price |-> 10],
    [title |-> "A", price |-> 15] }

\* { ...a, ...b } : b's fields win, a's other fields stay.
Spread(a, b) ==
  [f \in (DOMAIN a) \cup (DOMAIN b) |-> IF f \in DOMAIN b THEN b[f] ELSE a[f]]

\* Answers the service may give to PUT /products/i with body d: the body
\* echoed with the id (no image), the whole product, or the whole product
\* with a price the server normalised.
UpdateResponses(i, ds) ==
  UNION { { Spread([id |-> i], d),
            Spread(ServerProduct(i), d),
            Spread(ServerProduct(i), [title |-> d.title, price |-> d.price + 1]) } : d \in ds }

\* old.map(p => p.id === id ? { ...p, ...data } : p)
MapMerge(list, i, d) ==
  [n \in 1..Len(list) |-> IF list[n].id = i THEN Spread(list[n], d) ELSE list[n]]

\* old.filter(p => p.id !== id)
RECURSIVE FilterOut(_, _)
FilterOut(list, i) ==
  IF list = << >> THEN << >>
  ELSE IF Head(list).id = i THEN FilterOut(Tail(list), i)
       ELSE << Head(list) >> \o FilterOut(Tail(list), i)

Ids(list) == { list[n].id : n \in 1..Len(list) }

\* The first element of the list with the given id, if any.
RECURSIVE Elem(_, _)
Elem(list, i) ==
  IF list = << >> THEN Undefined
  ELSE IF Head(list).id = i THEN Some(Head(list))
       ELSE Elem(Tail(list), i)

\* -------------------------------------------------------------- cache keys
PRODUCTS == << "products" >>
CATEGORIES == << "categories" >>
ProductKey(i) == << "product", i >>
Keys == { PRODUCTS, CATEGORIES } \cup { ProductKey(i) : i \in ProductIds }

StaleTime(k) ==
  IF k = PRODUCTS THEN StaleTimeProducts
  ELSE IF k = CATEGORIES THEN StaleTimeCategories
  ELSE StaleTimeProduct

\* refetchOnWindowFocus: 'always' for the list and the detail, true for
\* the categories.
RefetchOnWindowFocus(k) == IF k = CATEGORIES THEN "true" ELSE "always"

ServerData(k) ==
  IF k = PRODUCTS THEN ServerProducts
  ELSE IF k = CATEGORIES THEN ServerCategories
  ELSE ServerProduct(k[2])

VARIABLES
  cache,        \* key -> query state
  clock,        \* minutes since page load
  mounted,      \* the Index page (list and categories reads) is mounted
  isModalOpen,  \* ProductList.isModalOpen
  productId,    \* the modal's productId prop (optional)
  events,       \* handler runs and clock ticks since the page was loaded
  muts,         \* mutations in flight, oldest first
  updObs,       \* state of the modal's useUpdateProduct observer
  delObs,       \* state of the modal's useDeleteProduct observer
  selectedProduct,   \* ProductList.selectedProduct (optional)
  searchQuery,       \* ProductList.searchQuery
  selectedCategory,  \* ProductList.selectedCategory
  currentPage,       \* ProductList.currentPage
  isLoggedIn,        \* AuthProvider.isLoggedIn
  user,              \* AuthProvider.user (optional)
  loading,           \* AuthProvider.loading
  storage,           \* localStorage entry under STORAGE_KEY (optional)
  loginResult        \* what the last call of login returned (optional)

syncVars == << cache, clock, mounted, isModalOpen, productId, events, muts, updObs, delObs >>
listVars == << searchQuery, selectedCategory, currentPage >>
authVars == << isLoggedIn, user, loading, storage, loginResult >>

vars == << cache, clock, mounted, isModalOpen, productId, events, muts, updObs, delObs,
           selectedProduct, searchQuery, selectedCategory, currentPage,
           isLoggedIn, user, loading, storage, loginResult >>

\* A query that was never fetched or was removed.
EmptyQuery ==
  [data |-> Undefined, status |-> "pending", fetching |-> FALSE,
   cancelled |-> 0, updatedAt |-> 0, failureCount |-> 0]

IdleObserver == [status |-> "idle", id |-> 0]

\* ProductList's own state after its first render.
InitList ==
  /\ selectedProduct = Undefined
  /\ searchQuery = << >>
  /\ selectedCategory = "all"
  /\ currentPage = 1

\* AuthProvider's useState initialisers, with nothing stored yet.
InitAuth ==
  /\ isLoggedIn = FALSE
  /\ user = Undefined
  /\ loading = TRUE
  /\ storage = Undefined
  /\ loginResult = Undefined

Init ==
  /\ InitList
  /\ InitAuth
  /\ cache = [k \in Keys |-> EmptyQuery]
  /\ clock = 0
  /\ mounted = FALSE
  /\ isModalOpen = FALSE
  /\ productId = Undefined
  /\ events = 0
  /\ muts = << >>
  /\ updObs = IdleObserver
  /\ delObs = IdleObserver

\* ------------------------------------------------- query client primitives
\* Staleness that begins only after staleTime has passed.
IsStale_Strict(q, k) == ~IsDefined(q.data) \/ clock - q.updatedAt > StaleTime(k)

\* Query.isStaleByTime: no data, or the data is at least staleTime old.
IsStale(q, k) == ~IsDefined(q.data) \/ clock - q.updatedAt >= StaleTime(k)

\* Query.fetch dispatching 'fetch': a query without data goes back to
\* pending, a query with data keeps its status while it refetches.
StartFetch(q) ==
  [q EXCEPT !.fetching = TRUE,
            !.failureCount = 0,
            !.status = IF IsDefined(q.data) THEN @ ELSE "pending"]

\* A client that retries a failed read once.
ShouldRetry_Once(q) == q.failureCount < 1

\* The retryer's decision after a failed request: retry while the failures
\* so far are fewer than the client's retry option.
ShouldRetry(q) == q.failureCount < Retry

\* A fetch that never joins the one in flight: the request in flight is
\* abandoned and another one goes out.
Fetch_NoDedupe(q) ==
  IF q.fetching THEN [q EXCEPT !.cancelled = @ + 1] ELSE StartFetch(q)

\* Query.fetch without cancelRefetch: a fetch in flight is shared.
Fetch(q) == IF q.fetching THEN q ELSE StartFetch(q)

\* observer.refetch(): cancelRefetch defaults to true, so a fetch in flight
\* on a query that has data is dropped and a new request goes out.
Refetch(q) ==
  IF q.fetching /\ IsDefined(q.data)
  THEN [StartFetch(q) EXCEPT !.cancelled = @ + 1]
  ELSE Fetch(q)

\* Room on the wire for one more cancelled request.
CanCancel(q) == ~q.fetching \/ q.cancelled < MaxCancelled

\* queryClient.cancelQueries: the request stays on the wire, its answer
\* will be ignored; the query is idle again with the data it has.
CancelQuery(q) ==
  IF q.fetching THEN [q EXCEPT !.fetching = FALSE, !.cancelled = @ + 1] ELSE q

\* Query.setData.  dataUpdatedAt is only ever read through IsStale, so it
\* is recorded for the keys whose staleTime is positive.
SetData(q, k, v) ==
  [q EXCEPT !.data = Some(v), !.status = "success",
            !.updatedAt = IF StaleTime(k) > 0 THEN clock ELSE 0]

\* queryClient.setQueryData(key, value)
SetQueryData(c, k, v) == [c EXCEPT ![k] = SetData(@, k, v)]

\* queryClient.removeQueries: the entry is gone, a fetch in flight for it
\* is cancelled silently.
RemoveQuery(q) ==
  [EmptyQuery EXCEPT !.cancelled = q.cancelled + (IF q.fetching THEN 1 ELSE 0)]

\* ------------------------------------------------------------- observers
\* ProductList returns the error view while the list read is in error; the
\* modal, its product read and its mutation observers are then unmounted.
ModalMounted(c, m) == m /\ c[PRODUCTS].status # "error"

\* useProduct(productId || 0, isOpen && productId !== null) with
\* enabled: enabled && id > 0 : the product the modal's read is enabled for.
ObservedProduct(c, m, open, pid) ==
  IF ModalMounted(c, m) /\ open /\ IsDefined(pid) /\ Get(pid) > 0
  THEN pid ELSE Undefined

\* Every key counts as observed while Index is mounted, whether or not the
\* modal's read is enabled.
HasObserver_IgnoreEnabled(c, m, open, pid, k) == m

HasObserver(c, m, open, pid, k) ==
  IF k \in { PRODUCTS, CATEGORIES } THEN m
  ELSE ObservedProduct(c, m, open, pid) = Some(k[2])

\* refetchOnWindowFocus: 'always' on every read.
ShouldFetchOnWindowFocus_Always(q, k) == TRUE

\* shouldFetchOnWindowFocus
ShouldFetchOnWindowFocus(q, k) ==
  RefetchOnWindowFocus(k) = "always" \/ IsStale(q, k)

\* shouldFetchOnMount with the default refetchOnMount: true
ShouldFetchOnMount(q, k) == IsStale(q, k)

\* What React does after a handler ran: when the modal's product read
\* becomes enabled, or enabled for another product, its observer fetches if
\* the entry is stale.
Render(c0, m0, open0, pid0, c1, m1, open1, pid1) ==
  LET old == ObservedProduct(c0, m0, open0, pid0)
      new == ObservedProduct(c1, m1, open1, pid1)
  IN  IF IsDefined(new) /\ new # old /\ ShouldFetchOnMount(c1[ProductKey(Get(new))], ProductKey(Get(new)))
      THEN [c1 EXCEPT ![ProductKey(Get(new))] = Fetch(@)]
      ELSE c1

Detach(ms) == [n \in 1..Len(ms) |-> [ms[n] EXCEPT !.observed = FALSE]]

\* The state a handler leaves, after React has re-rendered.
Finish(c1, m1, open1, pid1, muts1, upd1, del1) ==
  /\ events < MaxEvents
  /\ events' = events + 1
  /\ mounted' = m1
  /\ isModalOpen' = open1
  /\ productId' = pid1
  /\ UNCHANGED << listVars, authVars >>
  /\ IF ModalMounted(c1, m1)
     THEN muts' = muts1 /\ updObs' = upd1 /\ delObs' = del1
     ELSE muts' = Detach(muts1) /\ updObs' = IdleObserver /\ delObs' = IdleObserver
  /\ cache' = Render(cache, mounted, isModalOpen, productId, c1, m1, open1, pid1)

\* ------------------------------------------------------------------ reads
\* Index mounts: useProducts and useCategories subscribe.
Mount ==
  /\ ~mounted
  /\ Finish([k \in Keys |->
               IF k \in { PRODUCTS, CATEGORIES } /\ ShouldFetchOnMount(cache[k], k)
               THEN Fetch(cache[k]) ELSE cache[k]],
            TRUE, isModalOpen, productId, muts, updObs, delObs)
  /\ UNCHANGED << clock, selectedProduct >>

\* The tab regains focus: every query with an enabled observer that wants
\* it refetches; a fetch already in flight is shared.
Focus ==
  /\ mounted
  /\ Finish([k \in Keys |->
               IF /\ HasObserver(cache, mounted, isModalOpen, productId, k)
                  /\ ShouldFetchOnWindowFocus(cache[k], k)
               THEN Fetch(cache[k]) ELSE cache[k]],
            mounted, isModalOpen, productId, muts, updObs, delObs)
  /\ UNCHANGED << clock, selectedProduct >>

\* Index.handleRefresh; the button is disabled while the list is fetching.
Refresh ==
  /\ mounted
  /\ ~cache[PRODUCTS].fetching
  /\ Finish([cache EXCEPT ![PRODUCTS] = Refetch(@)],
            mounted, isModalOpen, productId, muts, updObs, delObs)
  /\ UNCHANGED << clock, selectedProduct >>

\* ProductList's Try Again button of the error view.
TryAgain ==
  /\ mounted
  /\ cache[PRODUCTS].status = "error"
  /\ CanCancel(cache[PRODUCTS])
  /\ Finish([cache EXCEPT ![PRODUCTS] = Refetch(@)],
            mounted, isModalOpen, productId, muts, updObs, delObs)
  /\ UNCHANGED << clock, selectedProduct >>

\* The request of the fetch in flight for k resolves with the server's data.
FetchSuccess(k) ==
  /\ cache[k].fetching
  /\ Finish([cache EXCEPT ![k] = [SetData(@, k, ServerData(k)) EXCEPT !.fetching = FALSE]],
            mounted, isModalOpen, productId, muts, updObs, delObs)
  /\ UNCHANGED << clock, selectedProduct >>

\* A failed request that also throws the entry's data away.
FetchError_ClearsData(k) ==
  /\ cache[k].fetching
  /\ Finish([cache EXCEPT ![k] =
               [@ EXCEPT !.fetching = FALSE, !.status = "error", !.data = Undefined]],
            mounted, isModalOpen, productId, muts, updObs, delObs)
  /\ UNCHANGED << clock, selectedProduct >>

\* The request fails (transport failure or non-2xx): unless the retryer
\* sends it again the entry goes to error; the data stays.
FetchError(k) ==
  /\ cache[k].fetching
  /\ Finish([cache EXCEPT ![k] =
               IF ShouldRetry(@)
               THEN [@ EXCEPT !.failureCount = @ + 1]
               ELSE [@ EXCEPT !.fetching = FALSE, !.status = "error"]],
            mounted, isModalOpen, productId, muts, updObs, delObs)
  /\ UNCHANGED << clock, selectedProduct >>

\* The answer to a cancelled request arrives and is ignored.
DropResponse(k) ==
  /\ cache[k].cancelled > 0
  /\ cache' = [cache EXCEPT ![k].cancelled = @ - 1]
  /\ events < MaxEvents
  /\ events' = events + 1
  /\ UNCHANGED << clock, mounted, isModalOpen, productId, muts, updObs, delObs >>
  /\ UNCHANGED << selectedProduct, listVars, authVars >>

\* ------------------------------------------------------------------ modal
\* A product card is clicked; the modal is opened for that product.
OpenModal(i) ==
  /\ ModalMounted(cache, mounted)
  /\ ~isModalOpen
  /\ IsDefined(cache[PRODUCTS].data)
  /\ i \in Ids(Get(cache[PRODUCTS].data))
  /\ Finish(cache, mounted, TRUE, Some(i), muts, updObs, delObs)
  /\ selectedProduct' = Elem(Get(cache[PRODUCTS].data), i)
  /\ UNCHANGED clock

\* handleClose -> ProductList.handleCloseModal
CloseModal ==
  /\ ModalMounted(cache, mounted)
  /\ isModalOpen
  /\ Finish(cache, mounted, FALSE, Undefined, muts, updObs, delObs)
  /\ selectedProduct' = Undefined
  /\ UNCHANGED clock

\* -------------------------------------------------------------- mutations
RemoveAt(ms, n) == [m \in 1..(Len(ms) - 1) |-> IF m < n THEN ms[m] ELSE ms[m + 1]]

\* onMutate that does not cancel the reads in flight.
UpdateOnMutate_NoCancel(c, id, d) ==
  LET previousProducts == c[PRODUCTS].data
      previousProduct == c[ProductKey(id)].data
      c2 == IF IsDefined(previousProducts)
            THEN SetQueryData(c, PRODUCTS, MapMerge(Get(c[PRODUCTS].data), id, d))
            ELSE c
      c3 == IF IsDefined(previousProduct)
            THEN SetQueryData(c2, ProductKey(id), Spread(Get(c2[ProductKey(id)].data), d))
            ELSE c2
  IN  [cache |-> c3,
       context |-> [previousProducts |-> previousProducts,
                    previousProduct |-> previousProduct]]

\* useUpdateProduct.onMutate for { id, data }: cancel the reads of the list
\* and of the product, snapshot both, merge the edit into both.
UpdateOnMutate(c, id, d) ==
  LET c1 == [c EXCEPT ![PRODUCTS] = CancelQuery(@), ![ProductKey(id)] = CancelQuery(@)]
      previousProducts == c1[PRODUCTS].data
      previousProduct == c1[ProductKey(id)].data
      c2 == IF IsDefined(previousProducts)
            THEN SetQueryData(c1, PRODUCTS, MapMerge(Get(c1[PRODUCTS].data), id, d))
            ELSE c1
      c3 == IF IsDefined(previousProduct)
            THEN SetQueryData(c2, ProductKey(id), Spread(Get(c2[ProductKey(id)].data), d))
            ELSE c2
  IN  [cache |-> c3,
       context |-> [previousProducts |-> previousProducts,
                    previousProduct |-> previousProduct]]

\* onError that puts back the list snapshot and forgets the detail's.
UpdateOnError_ListOnly(c, id, context) ==
  IF IsDefined(context.previousProducts)
  THEN SetQueryData(c, PRODUCTS, Get(context.previousProducts))
  ELSE c

\* useUpdateProduct.onError: put the snapshots back.
UpdateOnError(c, id, context) ==
  LET c1 == IF IsDefined(context.previousProducts)
            THEN SetQueryData(c, PRODUCTS, Get(context.previousProducts))
            ELSE c
  IN  IF IsDefined(context.previousProduct)
      THEN SetQueryData(c1, ProductKey(id), Get(context.previousProduct))
      ELSE c1

\* old.map(p => p.id === id ? data : p)
MapReplace(list, i, d) ==
  [n \in 1..Len(list) |-> IF list[n].id = i THEN d ELSE list[n]]

\* onSuccess that replaces the list element and the detail entry by the
\* server's answer instead of merging it in.
UpdateOnSuccess_Replace(c, id, r) ==
  LET c1 == IF IsDefined(c[PRODUCTS].data)
            THEN SetQueryData(c, PRODUCTS, MapReplace(Get(c[PRODUCTS].data), id, r))
            ELSE c
  IN  IF IsDefined(c1[ProductKey(id)].data)
      THEN SetQueryData(c1, ProductKey(id), r)
      ELSE c1

\* onSuccess followed by invalidateQueries(['products']): the mounted list
\* read refetches.
UpdateOnSuccess_Invalidate(c, id, r) ==
  LET c1 == IF IsDefined(c[PRODUCTS].data)
            THEN SetQueryData(c, PRODUCTS, MapMerge(Get(c[PRODUCTS].data), id, r))
            ELSE c
      c2 == IF IsDefined(c1[ProductKey(id)].data)
            THEN SetQueryData(c1, ProductKey(id), Spread(Get(c1[ProductKey(id)].data), r))
            ELSE c1
  IN  [c2 EXCEPT ![PRODUCTS] = Fetch(@)]

\* useUpdateProduct.onSuccess: merge the server's answer into the list
\* element and into the detail entry, where they exist.  No refetch.
UpdateOnSuccess(c, id, r) ==
  LET c1 == IF IsDefined(c[PRODUCTS].data)
            THEN SetQueryData(c, PRODUCTS, MapMerge(Get(c[PRODUCTS].data), id, r))
            ELSE c
  IN  IF IsDefined(c1[ProductKey(id)].data)
      THEN SetQueryData(c1, ProductKey(id), Spread(Get(c1[ProductKey(id)].data), r))
      ELSE c1

\* onMutate that takes its snapshot after the optimistic removal.
DeleteOnMutate_LateSnapshot(c, id) ==
  LET c1 == [c EXCEPT ![PRODUCTS] = CancelQuery(@), ![ProductKey(id)] = CancelQuery(@)]
      c2 == IF IsDefined(c1[PRODUCTS].data)
            THEN SetQueryData(c1, PRODUCTS, FilterOut(Get(c1[PRODUCTS].data), id))
            ELSE c1
      c3 == [c2 EXCEPT ![ProductKey(id)] = RemoveQuery(@)]
  IN  [cache |-> c3,
       context |-> [previousProducts |-> c2[PRODUCTS].data,
                    previousProduct |-> Undefined]]

\* useDeleteProduct.onMutate: cancel the reads, snapshot the list, filter
\* the product out of it and remove the product's detail entry.
DeleteOnMutate(c, id) ==
  LET c1 == [c EXCEPT ![PRODUCTS] = CancelQuery(@), ![ProductKey(id)] = CancelQuery(@)]
      previousProducts == c1[PRODUCTS].data
      c2 == IF IsDefined(previousProducts)
            THEN SetQueryData(c1, PRODUCTS, FilterOut(Get(c1[PRODUCTS].data), id))
            ELSE c1
      c3 == [c2 EXCEPT ![ProductKey(id)] = RemoveQuery(@)]
  IN  [cache |-> c3,
       context |-> [previousProducts |-> previousProducts,
                    previousProduct |-> Undefined]]

\* useDeleteProduct.onError: put the list snapshot back.
DeleteOnError(c, id, context) ==
  IF IsDefined(context.previousProducts)
  THEN SetQueryData(c, PRODUCTS, Get(context.previousProducts))
  ELSE c

\* useDeleteProduct.onSuccess: filter the product out of the list again.
DeleteOnSuccess(c, id) ==
  IF IsDefined(c[PRODUCTS].data)
  THEN SetQueryData(c, PRODUCTS, FilterOut(Get(c[PRODUCTS].data), id))
  ELSE c

\* The modal shows the product of its read (not loading, not in error).
ContentShown ==
  /\ ModalMounted(cache, mounted)
  /\ isModalOpen
  /\ IsDefined(productId)
  /\ IsDefined(cache[ProductKey(Get(productId))].data)
  /\ cache[ProductKey(Get(productId))].status = "success"

\* handleSave with a valid form: mutateAsync({ id: product.id, data }).
\* The Save button is disabled while the observer's mutation is pending.
HandleSave(d) ==
  /\ ContentShown
  /\ updObs.status # "pending"
  /\ Len(muts) < MaxMutations
  /\ LET id == Get(cache[ProductKey(Get(productId))].data).id
         om == UpdateOnMutate(cache, id, d)
     IN  /\ CanCancel(cache[PRODUCTS]) /\ CanCancel(cache[ProductKey(id)])
         /\ Finish(om.cache, mounted, isModalOpen, productId,
                   Append(muts, [kind |-> "update", id |-> id, data |-> Some(d),
                                 context |-> om.context, observed |-> TRUE]),
                   [status |-> "pending", id |-> id],
                   delObs)
  /\ UNCHANGED << clock, selectedProduct >>

\* PUT /products/id answered with r: onSuccess runs, mutateAsync resolves.
UpdateSuccess(n, r) ==
  /\ n \in 1..Len(muts)
  /\ muts[n].kind = "update"
  /\ r \in UpdateResponses(muts[n].id, { Get(muts[n].data) })
  /\ Finish(UpdateOnSuccess(cache, muts[n].id, r), mounted, isModalOpen, productId,
            RemoveAt(muts, n),
            IF muts[n].observed
            THEN [status |-> "success", id |-> muts[n].id]
            ELSE updObs,
            delObs)
  /\ UNCHANGED << clock, selectedProduct >>

\* The failure reaches the observer and the caller while the optimistic
\* values are still in the cache.
UpdateError_RejectFirst(n) ==
  /\ n \in 1..Len(muts)
  /\ muts[n].kind = "update"
  /\ Finish(cache, mounted, isModalOpen, productId,
            RemoveAt(muts, n),
            IF muts[n].observed
            THEN [status |-> "error", id |-> muts[n].id]
            ELSE updObs,
            delObs)
  /\ UNCHANGED << clock, selectedProduct >>

\* PUT /products/id failed: onError runs, then mutateAsync rejects.
UpdateError(n) ==
  /\ n \in 1..Len(muts)
  /\ muts[n].kind = "update"
  /\ Finish(UpdateOnError(cache, muts[n].id, muts[n].context), mounted, isModalOpen, productId,
            RemoveAt(muts, n),
            IF muts[n].observed
            THEN [status |-> "error", id |-> muts[n].id]
            ELSE updObs,
            delObs)
  /\ UNCHANGED << clock, selectedProduct >>

\* handleDelete: close the dialogs, then mutateAsync(product.id).
HandleDelete ==
  /\ ModalMounted(cache, mounted)
  /\ isModalOpen
  /\ IsDefined(productId)
  /\ IsDefined(cache[ProductKey(Get(productId))].data)
  /\ delObs.status # "pending"
  /\ Len(muts) < MaxMutations
  /\ LET id == Get(cache[ProductKey(Get(productId))].data).id
         om == DeleteOnMutate(cache, id)
     IN  /\ CanCancel(cache[PRODUCTS]) /\ CanCancel(cache[ProductKey(id)])
         /\ Finish(om.cache, mounted, FALSE, Undefined,
                   Append(muts, [kind |-> "delete", id |-> id, data |-> Undefined,
                                 context |-> om.context, observed |-> TRUE]),
                   updObs,
                   [status |-> "pending", id |-> id])
  /\ selectedProduct' = Undefined
  /\ UNCHANGED clock

\* DELETE /products/id answered: onSuccess runs, mutateAsync resolves.
DeleteSuccess(n) ==
  /\ n \in 1..Len(muts)
  /\ muts[n].kind = "delete"
  /\ Finish(DeleteOnSuccess(cache, muts[n].id), mounted, isModalOpen, productId,
            RemoveAt(muts, n),
            updObs,
            IF muts[n].observed
            THEN [status |-> "success", id |-> muts[n].id]
            ELSE delObs)
  /\ UNCHANGED << clock, selectedProduct >>

\* DELETE /products/id failed: onError runs, then mutateAsync rejects.
DeleteError(n) ==
  /\ n \in 1..Len(muts)
  /\ muts[n].kind = "delete"
  /\ Finish(DeleteOnError(cache, muts[n].id, muts[n].context), mounted, isModalOpen, productId,
            RemoveAt(muts, n),
            updObs,
            IF muts[n].observed
            THEN [status |-> "error", id |-> muts[n].id]
            ELSE delObs)
  /\ UNCHANGED << clock, selectedProduct >>

\* ------------------------------------------------------------ environment
TickSteps == { 10, 20 }

Tick ==
  \E dt \in TickSteps :
    /\ clock + dt <= MaxClock
    /\ clock' = clock + dt
    /\ events < MaxEvents
    /\ events' = events + 1
    /\ UNCHANGED << cache, mounted, isModalOpen, productId, muts, updObs, delObs >>
    /\ UNCHANGED << selectedProduct, listVars, authVars >>

\* The page is reloaded: the query client and all component state are
\* rebuilt from scratch; requests of the old page are abandoned.
Reload ==
  /\ mounted
  /\ cache' = [k \in Keys |-> EmptyQuery]
  /\ clock' = 0
  /\ mounted' = FALSE
  /\ isModalOpen' = FALSE
  /\ productId' = Undefined
  /\ events' = 0
  /\ muts' = << >>
  /\ updObs' = IdleObserver
  /\ delObs' = IdleObserver
  /\ selectedProduct' = Undefined
  /\ searchQuery' = << >>
  /\ selectedCategory' = "all"
  /\ currentPage' = 1
  /\ isLoggedIn' = FALSE
  /\ user' = Undefined
  /\ loading' = TRUE
  /\ loginResult' = Undefined
  /\ UNCHANGED storage

\* ----------------------------------------------------------- product list
\* The product list view by itself, fed with lists of up to MaxProducts
\* products in two categories; titles are sequences of letters.
Title(n) == IF n % 3 = 0 THEN << "A", "b" >> ELSE << "b" >>
Category(n) == IF n % 2 = 0 THEN "c1" ELSE "c2"
Catalogue(n) == [m \in 1..n |-> [id |-> m, title |-> Title(m), category |-> Category(m)]]

SearchQueries == { << >>, << "a" >>, << "B" >> }
CategoryChoices == { "all", "c1", "c2" }

\* String.prototype.toLowerCase, letter by letter.
ToLowerCase(text) ==
  [n \in 1..Len(text) |-> IF text[n] = "A" THEN "a" ELSE IF text[n] = "B" THEN "b" ELSE text[n]]

\* String.prototype.includes
Includes(text, part) ==
  \E n \in 0..(Len(text) - Len(part)) : SubSeq(text, n + 1, n + Len(part)) = part

\* The products prop: the data of the list read.
Products == cache[PRODUCTS].data

\* filteredProducts
FilteredProducts ==
  LET Matches(product) ==
        /\ Includes(ToLowerCase(product.title), ToLowerCase(searchQuery))
        /\ selectedCategory = "all" \/ product.category = selectedCategory
  IN  IF ~IsDefined(Products) THEN << >> ELSE SelectSeq(Get(Products), Matches)

\* Math.ceil(filteredProducts.length / ITEMS_PER_PAGE)
TotalPages == (Len(FilteredProducts) + ITEMS_PER_PAGE - 1) \div ITEMS_PER_PAGE

\* Array.prototype.slice(start, end) with 0 <= start <= end
Slice(list, start, end) ==
  SubSeq(list, start + 1, IF end < Len(list) THEN end ELSE Len(list))

\* paginatedProducts
PaginatedProducts ==
  LET startIndex == (currentPage - 1) * ITEMS_PER_PAGE
  IN  Slice(FilteredProducts, startIndex, startIndex + ITEMS_PER_PAGE)

\* The props ProductList passes to ProductDetailModal (onClose left out).
ModalProps(selected, open) == [product |-> selected, isOpen |-> open]

\* The productId the modal destructures from its props.
PropProductId(props) ==
  IF "productId" \in DOMAIN props THEN props.productId ELSE Undefined

\* Index renders the list with the n products the list read has returned.
ProductsArrive(n) ==
  /\ IsDefined(Products) => Len(Get(Products)) # n
  /\ mounted' = TRUE
  /\ cache' = SetQueryData(cache, PRODUCTS, Catalogue(n))
  /\ UNCHANGED << clock, isModalOpen, productId, events, muts, updObs, delObs >>
  /\ UNCHANGED << selectedProduct, listVars, authVars >>

\* The search box changes; the effect on [searchQuery, selectedCategory]
\* puts the list back on page 1.  (The open dialog covers the list, so
\* the list's controls are used while it is closed.)
SetSearchQuery(query) ==
  /\ ModalMounted(cache, mounted)
  /\ ~isModalOpen
  /\ query # searchQuery
  /\ searchQuery' = query
  /\ currentPage' = 1
  /\ UNCHANGED << syncVars, selectedProduct, selectedCategory, authVars >>

\* Another category is chosen; the same effect runs.
SetSelectedCategory(category) ==
  /\ ModalMounted(cache, mounted)
  /\ ~isModalOpen
  /\ category # selectedCategory
  /\ selectedCategory' = category
  /\ currentPage' = 1
  /\ UNCHANGED << syncVars, selectedProduct, searchQuery, authVars >>

\* A page number button (rendered for 1..totalPages when totalPages > 1).
GoToPage(page) ==
  /\ ModalMounted(cache, mounted)
  /\ ~isModalOpen
  /\ TotalPages > 1
  /\ page \in 1..TotalPages
  /\ currentPage' = page
  /\ UNCHANGED << syncVars, selectedProduct, searchQuery, selectedCategory, authVars >>

\* Previous, disabled on page 1.
PreviousPage ==
  /\ ModalMounted(cache, mounted)
  /\ ~isModalOpen
  /\ TotalPages > 1
  /\ currentPage # 1
  /\ currentPage' = IF currentPage - 1 > 1 THEN currentPage - 1 ELSE 1
  /\ UNCHANGED << syncVars, selectedProduct, searchQuery, selectedCategory, authVars >>

\* Next, disabled on the last page.
NextPage ==
  /\ ModalMounted(cache, mounted)
  /\ ~isModalOpen
  /\ TotalPages > 1
  /\ currentPage # TotalPages
  /\ currentPage' = IF currentPage + 1 < TotalPages THEN currentPage + 1 ELSE TotalPages
  /\ UNCHANGED << syncVars, selectedProduct, searchQuery, selectedCategory, authVars >>

\* handleProductClick on the m-th card of the page, and the render that
\* follows it with the props of ProductList's JSX.
ClickCard(m) ==
  /\ ModalMounted(cache, mounted)
  /\ ~isModalOpen
  /\ m \in 1..Len(PaginatedProducts)
  /\ selectedProduct' = Some(PaginatedProducts[m])
  /\ isModalOpen' = TRUE
  /\ productId' = PropProductId(ModalProps(selectedProduct', isModalOpen'))
  /\ cache' = Render(cache, mounted, isModalOpen, productId,
                     cache, mounted, isModalOpen', productId')
  /\ UNCHANGED << clock, mounted, events, muts, updObs, delObs, listVars, authVars >>

\* handleCloseModal
CloseCard ==
  /\ ModalMounted(cache, mounted)
  /\ isModalOpen
  /\ selectedProduct' = Undefined
  /\ isModalOpen' = FALSE
  /\ productId' = PropProductId(ModalProps(selectedProduct', isModalOpen'))
  /\ UNCHANGED << cache, clock, mounted, events, muts, updObs, delObs, listVars, authVars >>

\* --------------------------------------------------------- authentication
\* What can be typed into the login form: the pair the code accepts, the
\* pair the README documents, and mixtures of them.
Usernames == { "user", "test@example.com" }
Passwords == { "password", "password123" }

\* JSON.stringify of an object literal given as << name, optional value >>
\* pairs: the text lists, in the order written, the properties whose value
\* is not undefined, as << name, value >> pairs.
RECURSIVE Stringify(_)
Stringify(properties) ==
  IF properties = << >> THEN << >>
  ELSE IF IsDefined(Head(properties)[2])
       THEN << << Head(properties)[1], Get(Head(properties)[2]) >> >>
              \o Stringify(Tail(properties))
       ELSE Stringify(Tail(properties))

\* JSON.parse followed by reading one property: the value of the last
\* pair with that name, undefined when the text has none.
ParsedProperty(text, name) ==
  LET at == { n \in 1..Len(text) : text[n][1] = name }
  IN  IF at = { } THEN Undefined
      ELSE Some(text[CHOOSE n \in at : \A m \in at : m <= n][2])

\* login's localStorage.setItem value; the timestamp is the clock.
SessionText(username) ==
  Stringify(<< << "username", Some(username) >>,
               << "isLoggedIn", Some(TRUE) >>,
               << "timestamp", Some(clock) >> >>)

\* A mount effect that never looks at the stored session.
AuthMount_IgnoresSession ==
  /\ loading
  /\ loading' = FALSE
  /\ UNCHANGED << isLoggedIn, user, storage, loginResult >>
  /\ UNCHANGED << syncVars, selectedProduct, listVars >>

\* AuthProvider's mount effect: restore the session stored under
\* STORAGE_KEY, then clear loading.  (The entry is only ever written by
\* login, so it always parses.)
AuthMount ==
  /\ loading
  /\ IF /\ IsDefined(storage)
        /\ ParsedProperty(Get(storage), "isLoggedIn") = Some(TRUE)
     THEN /\ isLoggedIn' = TRUE
          /\ user' = ParsedProperty(Get(storage), "username")
     ELSE UNCHANGED << isLoggedIn, user >>
  /\ loading' = FALSE
  /\ UNCHANGED << storage, loginResult >>
  /\ UNCHANGED << syncVars, selectedProduct, listVars >>

\* A login that sets the state and stores no session.
Login_NoStore(username, password) ==
  /\ ~loading
  /\ IF username = "user" /\ password = "password"
     THEN /\ isLoggedIn' = TRUE
          /\ user' = Some(username)
          /\ loginResult' = Some(TRUE)
          /\ UNCHANGED storage
     ELSE /\ loginResult' = Some(FALSE)
          /\ UNCHANGED << isLoggedIn, user, storage >>
  /\ UNCHANGED loading
  /\ UNCHANGED << syncVars, selectedProduct, listVars >>

\* login(username, password)
Login(username, password) ==
  /\ ~loading
  /\ IF username = "user" /\ password = "password"
     THEN /\ isLoggedIn' = TRUE
          /\ user' = Some(username)
          /\ storage' = Some(SessionText(username))
          /\ loginResult' = Some(TRUE)
     ELSE /\ loginResult' = Some(FALSE)
          /\ UNCHANGED << isLoggedIn, user, storage >>
  /\ UNCHANGED loading
  /\ UNCHANGED << syncVars, selectedProduct, listVars >>

\* logout()
Logout ==
  /\ ~loading
  /\ isLoggedIn' = FALSE
  /\ user' = Undefined
  /\ storage' = Undefined
  /\ UNCHANGED << loading, loginResult >>
  /\ UNCHANGED << syncVars, selectedProduct, listVars >>

\* The page is refreshed: AuthProvider is built anew, localStorage stays.
AuthReload ==
  /\ ~loading
  /\ isLoggedIn' = FALSE
  /\ user' = Undefined
  /\ loading' = TRUE
  /\ loginResult' = Undefined
  /\ UNCHANGED storage
  /\ UNCHANGED << syncVars, selectedProduct, listVars >>

\* ---------------------------------------------------------- specification
Next ==
  \/ Mount
  \/ Focus
  \/ Refresh
  \/ TryAgain
  \/ \E k \in Keys : FetchSuccess(k)
  \/ \E k \in Keys : FetchError(k)
  \/ \E k \in Keys : DropResponse(k)
  \/ \E i \in ProductIds : OpenModal(i)
  \/ CloseModal
  \/ \E d \in Payloads : HandleSave(d)
  \/ \E n \in 1..MaxMutations : \E r \in UNION { UpdateResponses(i, Payloads) : i \in ProductIds } : UpdateSuccess(n, r)
  \/ \E n \in 1..MaxMutations : UpdateError(n)
  \/ HandleDelete
  \/ \E n \in 1..MaxMutations : DeleteSuccess(n)
  \/ \E n \in 1..MaxMutations : DeleteError(n)
  \/ Tick
  \/ Reload

Spec == Init /\ [][Next]_vars

\* The product list view as ProductList renders it: filters, pages, and
\* the detail modal with the props its JSX passes.
NextList ==
  \/ \E n \in 0..MaxProducts : ProductsArrive(n)
  \/ \E query \in SearchQueries : SetSearchQuery(query)
  \/ \E category \in CategoryChoices : SetSelectedCategory(category)
  \/ \E page \in 1..MaxProducts : GoToPage(page)
  \/ PreviousPage
  \/ NextPage
  \/ \E m \in 1..ITEMS_PER_PAGE : ClickCard(m)
  \/ CloseCard

SpecList == Init /\ [][NextList]_vars

\* The authentication provider on its own: sessions over page refreshes.
NextAuth ==
  \/ AuthMount
  \/ \E username \in Usernames : \E password \in Passwords : Login(username, password)
  \/ Logout
  \/ AuthReload
  \/ Tick

SpecAuth == Init /\ [][NextAuth]_vars

\* ============================================================ properties
ListData(c) == c[PRODUCTS].data
DetailData(c, i) == c[ProductKey(i)].data

\* Requests for k that are on the wire: the fetch in flight and the
\* cancelled ones whose answers are still to come.
OnWire(q) == q.cancelled + (IF q.fetching THEN 1 ELSE 0)

\* Requests for k sent by this step (for steps in which none resolves).
NewCalls(k) == OnWire(cache'[k]) - OnWire(cache[k])

\* The mutation that this step put in flight.
Started == muts'[Len(muts')]

\* C1 - Update rollback: the snapshot taken by an update's onMutate is the
\* list and the detail entry as they were right before the optimistic
\* write, and when the update's network call fails the list and the
\* detail entry are exactly those snapshot values again.
C1_UpdateRollback ==
  [][ /\ \A d \in Payloads :
           HandleSave(d) =>
             /\ IsDefined(ListData(cache))
             /\ Started.context.previousProducts = ListData(cache)
             /\ Started.context.previousProduct = DetailData(cache, Started.id)
      /\ \A n \in 1..Len(muts) :
           UpdateError(n) =>
             /\ ListData(cache') = muts[n].context.previousProducts
             /\ DetailData(cache', muts[n].id) = muts[n].context.previousProduct
    ]_vars

\* An update of product 1 from price 10 to 15 has failed and the list and
\* the detail entry show the server's values (price 10) again.
C1_Witness ==
  /\ updObs = [status |-> "error", id |-> 1]
  /\ ListData(cache) = Some(ServerProducts)
  /\ DetailData(cache, 1) = Some(ServerProduct(1))

\* C2 - Delete apply and commit: right after the optimistic apply the list
\* is the old list without the elements of id i, in the old order, and the
\* detail entry of i is absent; after the confirmed success the list
\* excludes i and the detail entry of i is still absent.
C2_DeleteApplyCommit ==
  [][ /\ HandleDelete =>
           /\ ListData(cache') = Some(FilterOut(Get(ListData(cache)), Started.id))
           /\ ~IsDefined(DetailData(cache', Started.id))
      /\ \A n \in 1..Len(muts) :
           DeleteSuccess(n) =>
             /\ muts[n].id \notin Ids(Get(ListData(cache')))
             /\ ~IsDefined(DetailData(cache', muts[n].id))
    ]_vars

\* C3 - Delete rollback of the list: the snapshot taken by a delete's
\* onMutate is the list as it was right before the optimistic removal, the
\* removal takes out nothing but product i, and when the network call
\* fails the list is that snapshot again, so a product i that the delete
\* removed is back in it.
C3_DeleteRollbackList ==
  [][ /\ HandleDelete =>
           /\ IsDefined(ListData(cache))
           /\ Started.context.previousProducts = ListData(cache)
      /\ \A n \in 1..Len(muts) :
           DeleteError(n) =>
             /\ ListData(cache') = muts[n].context.previousProducts
             /\ Ids(Get(muts[n].context.previousProducts)) \subseteq Ids(Get(ListData(cache')))
    ]_vars

\* A delete of a listed product has failed and the list is the server's
\* list again, the product included.
C3_Witness ==
  /\ delObs.status = "error"
  /\ ListData(cache) = Some(ServerProducts)
  /\ delObs.id \in Ids(Get(ListData(cache)))

\* C4 - Full rollback: when a delete of product i fails, the detail entry
\* of i, which held data before the delete and was removed by the
\* optimistic apply, holds data again.
C4_DeleteRollbackDetail ==
  [][ \A n \in 1..Len(muts) :
        DeleteError(n) => IsDefined(DetailData(cache', muts[n].id))
    ]_vars

\* C5 - Mutation ordering: when an update of product i starts, every read
\* of the list or of product i that is in flight is cancelled (none is left
\* fetching; the request stays on the wire as a cancelled one), and the
\* answer to a cancelled request changes no cache entry's data or status
\* when it arrives, so it cannot overwrite what the update committed.
C5_MutationOrdering ==
  [][ /\ \A d \in Payloads :
           HandleSave(d) =>
             \A k \in { PRODUCTS, ProductKey(Started.id) } :
               /\ ~cache'[k].fetching
               /\ cache'[k].cancelled = OnWire(cache[k])
      /\ \A k \in Keys :
           DropResponse(k) =>
             \A j \in Keys :
               /\ cache'[j].data = cache[j].data
               /\ cache'[j].status = cache[j].status
               /\ cache'[j].fetching = cache[j].fetching
    ]_vars

\* An update has committed while the answer to a list read that was
\* cancelled is still on its way; the list shows the committed edit.
C5_Witness ==
  /\ updObs.status = "success"
  /\ cache[PRODUCTS].cancelled > 0
  /\ ~cache[PRODUCTS].fetching
  /\ muts = << >>
  /\ IsDefined(Elem(Get(ListData(cache)), updObs.id))
  /\ Get(Elem(Get(ListData(cache)), updObs.id)).title = "B"

\* The steps in which an update or a delete settles successfully.
MutationSucceeds ==
  /\ Len(muts') = Len(muts) - 1
  /\ \E n \in 1..Len(muts) :
       \/ DeleteSuccess(n)
       \/ \E r \in UpdateResponses(muts[n].id, Payloads) : UpdateSuccess(n, r)

C7_CommitEqualsResult ==
  [][ \A n \in 1..Len(muts) : \A r \in UpdateResponses(muts[n].id, Payloads) :
        UpdateSuccess(n, r) =>
          /\ Elem(Get(ListData(cache')), muts[n].id) = Some(r)
          /\ DetailData(cache', muts[n].id) = Some(r)
    ]_vars

\* The fields of b overwrite a: a2 is { ...a, ...b }.
Overwritten(a, b, a2) ==
  /\ DOMAIN a2 = (DOMAIN a) \cup (DOMAIN b)
  /\ \A f \in DOMAIN b : a2[f] = b[f]
  /\ \A f \in (DOMAIN a) \ (DOMAIN b) : a2[f] = a[f]

\* One optional product before and after a merge of b: absent stays absent.
MergedInto(before, b, after) ==
  IF IsDefined(before)
  THEN IsDefined(after) /\ Overwritten(Get(before), b, Get(after))
  ELSE ~IsDefined(after)

\* C7 (amended) - The optimistic apply writes the edited fields into the
\* list element of product i and into its detail entry before the network
\* call resolves; the commit overwrites, in the list element of i and in
\* the detail entry of i where they still exist, the fields the server's
\* answer r carries with r's values and leaves their other fields alone
\* (so they equal r when r carries every field of the product).
C7_CommitMergesResult ==
  [][ /\ Len(muts') = Len(muts) + 1 =>
           \A d \in Payloads :
           HandleSave(d) =>
             /\ MergedInto(Elem(Get(ListData(cache)), Started.id), d,
                           Elem(Get(ListData(cache')), Started.id))
             /\ MergedInto(DetailData(cache, Started.id), d,
                           DetailData(cache', Started.id))
             /\ IsDefined(DetailData(cache', Started.id))
      /\ Len(muts') = Len(muts) - 1 =>
           \A n \in 1..Len(muts) : \A r \in UpdateResponses(muts[n].id, Payloads) :
             UpdateSuccess(n, r) =>
               /\ MergedInto(Elem(Get(ListData(cache)), muts[n].id), r,
                             Elem(Get(ListData(cache')), muts[n].id))
               /\ MergedInto(DetailData(cache, muts[n].id), r,
                             DetailData(cache', muts[n].id))
    ]_vars

\* The edit of product 1 to title "B" has committed: the list element and
\* the detail entry are { id: 1, title: "B", price: 10 } with the image
\* they had.
C7_Witness ==
  /\ updObs = [status |-> "success", id |-> 1]
  /\ Elem(Get(ListData(cache)), 1) = Some([id |-> 1, title |-> "B", price |-> 10, image |-> "img1"])
  /\ DetailData(cache, 1) = Some([id |-> 1, title |-> "B", price |-> 10, image |-> "img1"])

\* C8 - Mutated state persists until page refresh: once the modal's edit
\* has succeeded, the list element of the edited product does not change,
\* and once its delete has succeeded the deleted product does not come
\* back into the list, in any step that is not a page reload and in which
\* no mutation starts or settles.
C8_PersistsUntilReload ==
  [][ (mounted' /\ muts' = muts /\ IsDefined(ListData(cache))) =>
        /\ (updObs.status = "success" /\ updObs' = updObs) =>
             Elem(Get(ListData(cache')), updObs.id) = Elem(Get(ListData(cache)), updObs.id)
        /\ (delObs.status = "success" /\ delObs' = delObs
              /\ delObs.id \notin Ids(Get(ListData(cache)))) =>
             delObs.id \notin Ids(Get(ListData(cache')))
    ]_vars

\* The reads a focus gain addresses: the list and the categories while
\* Index is mounted, the product of the modal while the modal is rendered
\* and open.
ActiveRead(k) ==
  /\ mounted
  /\ k \notin { PRODUCTS, CATEGORIES } =>
       /\ cache[PRODUCTS].status # "error"
       /\ isModalOpen
       /\ productId = Some(k[2])

\* C9 (as stated) - Focus revalidation: a focus gain issues exactly one
\* new fetch for every active read and none for a disabled one.
C9_FocusFetchesEveryActiveRead ==
  [][ Focus => \A k \in Keys : NewCalls(k) = IF ActiveRead(k) THEN 1 ELSE 0 ]_vars

\* C9 (amended) - A focus gain issues a new fetch for the list and for the
\* open modal's product exactly when none is in flight for that key
\* already (otherwise the fetch in flight is shared), for the categories
\* only when moreover their data is absent or at least 30 minutes old, and
\* none for a read that is disabled; after it every active read of the
\* list or of the modal's product is fetching.
C9_FocusRevalidation ==
  [][ Focus =>
        \A k \in Keys :
          /\ NewCalls(k) =
               IF /\ ActiveRead(k)
                  /\ ~cache[k].fetching
                  /\ k = CATEGORIES =>
                       \/ ~IsDefined(cache[k].data)
                       \/ clock - cache[k].updatedAt >= StaleTimeCategories
               THEN 1 ELSE 0
          /\ (ActiveRead(k) /\ k # CATEGORIES) => cache'[k].fetching
          /\ ~ActiveRead(k) => cache'[k] = cache[k]
    ]_vars

\* After a focus gain with the modal open: the list and the modal's
\* product are refetching behind their data, the fresh categories are not,
\* and the other product's entry has no request.
C9_Witness ==
  /\ isModalOpen /\ productId = Some(1)
  /\ cache[PRODUCTS].fetching /\ IsDefined(cache[PRODUCTS].data)
  /\ cache[ProductKey(1)].fetching /\ IsDefined(cache[ProductKey(1)].data)
  /\ ~cache[CATEGORIES].fetching /\ IsDefined(cache[CATEGORIES].data)
  /\ OnWire(cache[ProductKey(2)]) = 0

\* C10 - Staleness gating: a re-read (focus gain) of an active read whose
\* data was fetched at t0 issues no network call and leaves the entry as
\* it is when clock - t0 < staleTime and the read refetches on focus only
\* when stale; when clock - t0 >= staleTime the data stays in the cache and
\* one background fetch is in flight, newly issued unless one was in
\* flight already.
C10_StalenessGating ==
  [][ Focus =>
        \A k \in Keys :
          (ActiveRead(k) /\ IsDefined(cache[k].data)) =>
            /\ (clock - cache[k].updatedAt < StaleTime(k) /\ RefetchOnWindowFocus(k) = "true") =>
                 /\ NewCalls(k) = 0
                 /\ cache'[k] = cache[k]
            /\ clock - cache[k].updatedAt >= StaleTime(k) =>
                 /\ cache'[k].data = cache[k].data
                 /\ cache'[k].fetching
                 /\ NewCalls(k) = IF cache[k].fetching THEN 0 ELSE 1
    ]_vars

\* The categories, fetched 30 minutes ago or more, are being refetched in
\* the background while their data is still served.
C10_Witness ==
  /\ IsDefined(cache[CATEGORIES].data)
  /\ cache[CATEGORIES].status = "success"
  /\ cache[CATEGORIES].fetching
  /\ clock - cache[CATEGORIES].updatedAt >= StaleTimeCategories

\* A read of k is issued by this step while a fetch for k is in flight: a
\* focus gain with k observed, the modal opened on k's product, or Try
\* Again for the list.
ReadWhileFetching(k) ==
  /\ cache[k].fetching
  /\ \/ Focus /\ ActiveRead(k) /\ k # CATEGORIES
     \/ \E i \in ProductIds : OpenModal(i) /\ k = ProductKey(i)
     \/ TryAgain /\ k = PRODUCTS

\* C11 (as stated) - Read coalescing: a read issued for a key while a
\* fetch for that key is in flight makes no further network call.
C11_OneCallPerKey ==
  [][ \A k \in Keys : ReadWhileFetching(k) => NewCalls(k) = 0 ]_vars

\* C11 (amended) - While a fetch for a key is in flight, a read issued for
\* that key by a focus gain or by opening the modal joins it: no step makes
\* a further network call for the key, except Try Again clicked for the
\* list, which cancels the fetch in flight and issues exactly one more
\* call.  When the answer to the fetch in flight arrives (the page not being
\* reloaded) it settles the one entry every caller reads (success or error)
\* and leaves no fetch in flight for the key.
C11_ReadCoalescing ==
  [][ \A k \in Keys :
        cache[k].fetching =>
          /\ NewCalls(k) > 0 =>
               /\ k = PRODUCTS
               /\ NewCalls(k) = 1
               /\ cache'[k].fetching
               /\ cache'[k].cancelled = cache[k].cancelled + 1
               /\ cache'[k].data = cache[k].data
               /\ TryAgain
          /\ (mounted' /\ NewCalls(k) = -1 /\ cache'[k].cancelled = cache[k].cancelled) =>
               /\ ~cache'[k].fetching
               /\ cache'[k].status \in { "success", "error" }
               /\ FetchSuccess(k) \/ FetchError(k)
    ]_vars

\* The list read failed behind its data, a focus gain started a refetch,
\* and Try Again superseded it: the first request is cancelled on the wire
\* and a second one is in flight.
C11_Witness ==
  /\ events <= 6
  /\ cache[PRODUCTS].status = "error"
  /\ IsDefined(cache[PRODUCTS].data)
  /\ cache[PRODUCTS].fetching
  /\ cache[PRODUCTS].cancelled = 1

\* C12 - Disabled reads never hit the network: a step issues a network
\* call for a product's detail entry only if, after the step, the modal's
\* read is enabled for that product (modal rendered and open, productId
\* set and positive); while the read is disabled no step (mount, focus
\* gain, refresh, mutation start or settlement) issues one, and a focus
\* gain leaves the detail entries untouched.
C12_DisabledReadsIdle ==
  [][ \A i \in ProductIds :
        /\ NewCalls(ProductKey(i)) > 0 =>
             /\ mounted' /\ isModalOpen' /\ productId' = Some(i) /\ i > 0
             /\ ObservedProduct(cache', mounted', isModalOpen', productId') = Some(i)
        /\ (~isModalOpen /\ ~isModalOpen') =>
             /\ NewCalls(ProductKey(i)) <= 0
             /\ cache'[ProductKey(i)].fetching => cache[ProductKey(i)].fetching
    ]_vars

\* The modal was closed by a delete that has succeeded, a focus gain is
\* refetching the list, and no request for any product detail is on the
\* wire.
C12_Witness ==
  /\ ~isModalOpen
  /\ productId = Undefined
  /\ delObs.status = "success"
  /\ cache[PRODUCTS].fetching
  /\ IsDefined(cache[PRODUCTS].data)
  /\ \A i \in ProductIds : OnWire(cache[ProductKey(i)]) = 0

\* The modal's read becomes enabled for product i in this step.
ReadEnabledNow(i) ==
  /\ ObservedProduct(cache', mounted', isModalOpen', productId') = Some(i)
  /\ ObservedProduct(cache, mounted, isModalOpen, productId) # Some(i)

\* C13 - No automatic retry of reads: when the network call of a read
\* fails, the entry is in error and no longer fetching after that single
\* call, and no new call was issued in its place; while an entry is in
\* error and idle, a network call for its key is issued only by Try Again,
\* Refresh, a focus revalidation, or the modal's read being enabled again
\* for that product.
C13_NoAutomaticRetry ==
  [][ \A k \in Keys :
        /\ ( /\ cache[k].fetching
             /\ cache'[k].data = cache[k].data
             /\ cache'[k].cancelled = cache[k].cancelled
             /\ muts' = muts
             /\ NewCalls(k) <= 0
             /\ FetchError(k) ) =>
               /\ cache'[k].status = "error"
               /\ ~cache'[k].fetching
               /\ NewCalls(k) = -1
        /\ (cache[k].status = "error" /\ ~cache[k].fetching /\ NewCalls(k) > 0) =>
             /\ NewCalls(k) = 1
             /\ \/ k \notin { PRODUCTS, CATEGORIES } /\ ReadEnabledNow(k[2])
                \/ TryAgain
                \/ Refresh
                \/ Focus
    ]_vars

\* The first load of the list has failed: the entry is in error without
\* data, nothing is on the wire for it, and the error view offers Try
\* Again.
C13_Witness ==
  /\ mounted
  /\ cache[PRODUCTS].status = "error"
  /\ ~IsDefined(cache[PRODUCTS].data)
  /\ OnWire(cache[PRODUCTS]) = 0
  /\ cache[PRODUCTS].failureCount = 0

\* C14 - Error is surfaced only after rollback: in the step in which a
\* failed update or delete is reported (the mutation leaves the ones in
\* flight, its observer shows the error, mutateAsync rejects), the list
\* already equals the mutation's list snapshot and, for an update, the
\* detail entry already equals its detail snapshot.
C14_ErrorAfterRollback ==
  [][ \A n \in 1..Len(muts) :
        ( /\ Len(muts') = Len(muts) - 1
          /\ UpdateError(n) \/ DeleteError(n) ) =>
            /\ ListData(cache') = muts[n].context.previousProducts
            /\ muts[n].kind = "update" =>
                 DetailData(cache', muts[n].id) = muts[n].context.previousProduct
            /\ (muts[n].kind = "update" /\ muts[n].observed) =>
                 updObs' = [status |-> "error", id |-> muts[n].id]
            /\ (muts[n].kind = "delete" /\ muts[n].observed) =>
                 delObs' = [status |-> "error", id |-> muts[n].id]
    ]_vars

\* The modal, still open on product 2, shows that its update has failed,
\* and the list element and the detail entry of product 2 hold the
\* server's values again.
C14_Witness ==
  /\ isModalOpen /\ productId = Some(2)
  /\ updObs = [status |-> "error", id |-> 2]
  /\ muts = << >>
  /\ Elem(Get(ListData(cache)), 2) = Some(ServerProduct(2))
  /\ DetailData(cache, 2) = Some(ServerProduct(2))

\* C15 - Failed background refresh keeps last good data: when the fetch of
\* an entry that holds data fails, the entry's status is error and its
\* data is what it was (the last fetched, optimistically written or
\* committed value); an entry's data is cleared by no step other than a
\* delete's removal of that product's detail entry and a page reload.
C15_FailedRefreshKeepsData ==
  [][ \A k \in Keys :
        IsDefined(cache[k].data) =>
          /\ ( /\ cache[k].fetching
               /\ ~cache'[k].fetching
               /\ cache'[k].status = "error"
               /\ FetchError(k) ) =>
                 cache'[k].data = cache[k].data
          /\ ~IsDefined(cache'[k].data) =>
               \/ ~mounted'
               \/ /\ Len(muts') = Len(muts) + 1
                  /\ Started.kind = "delete"
                  /\ k = ProductKey(Started.id)
    ]_vars

\* The refetch of the list has failed after an edit was written to it:
\* the list is in error and still holds the edited data.
C15_Witness ==
  /\ cache[PRODUCTS].status = "error"
  /\ ~cache[PRODUCTS].fetching
  /\ IsDefined(cache[PRODUCTS].data)
  /\ cache[PRODUCTS].data # Some(ServerProducts)
  /\ Len(Get(cache[PRODUCTS].data)) = Len(ServerProducts)

\* C16 - Mutation concurrency rule: when a mutation on product i starts,
\* no earlier mutation on product i is still in flight (its snapshot and
\* optimistic apply do not interleave with a prior mutation on the same
\* target), and after its pre-flight no read of the list or of product i
\* is in flight.
C16_NoInterleavedMutations ==
  [][ Len(muts') = Len(muts) + 1 =>
        /\ \A n \in 1..Len(muts) : muts[n].id # Started.id
        /\ \A k \in { PRODUCTS, ProductKey(Started.id) } : ~cache'[k].fetching
    ]_vars

\* C17 - Documented default credentials log in: login returns true and
\* leaves the application logged in as that user exactly for the pair
\* test@example.com / password123, and returns false for any other pair.
C17_DocumentedCredentials ==
  [][ \A username \in Usernames : \A password \in Passwords :
        Login(username, password) =>
          IF username = "test@example.com" /\ password = "password123"
          THEN loginResult' = Some(TRUE) /\ isLoggedIn' /\ user' = Some(username)
          ELSE loginResult' = Some(FALSE)
    ]_vars

\* C18 - Session persistence round trip: a successful login stores a
\* session for its user and a logout removes it, a page refresh leaves
\* the stored entry alone, and the mount after the refresh yields
\* isLoggedIn = true with the stored user when a session is stored and
\* isLoggedIn = false, user = null when none is.
C18_SessionRoundTrip ==
  [][ /\ (loading /\ ~loading') =>
           IF IsDefined(storage)
           THEN isLoggedIn' /\ user' = ParsedProperty(Get(storage), "username")
           ELSE ~isLoggedIn' /\ user' = Undefined
      /\ (~loading /\ loading') => storage' = storage
      /\ (~loading /\ ~loading' /\ isLoggedIn') =>
           /\ IsDefined(user') /\ IsDefined(storage')
           /\ ParsedProperty(Get(storage'), "username") = user'
      /\ (~loading /\ ~loading' /\ ~isLoggedIn') =>
           /\ user' = Undefined
           /\ storage' = Undefined
    ]_vars

\* Logged in as "user" after a page refresh: no login call was made since
\* the refresh, the state was restored from the stored session.
C18_Witness ==
  /\ ~loading
  /\ loginResult = Undefined
  /\ isLoggedIn
  /\ user = Some("user")
  /\ IsDefined(storage)

\* C19 - Pagination size: the page shows the filtered products at
\* positions (p-1)*10+1 .. p*10 for the current page p, and the number of
\* pages is ceil(n / 10) for n filtered products.
C19_TenPerPage ==
  LET n == Len(FilteredProducts)
      last == IF currentPage * 10 < n THEN currentPage * 10 ELSE n
  IN  /\ TotalPages = (n + 9) \div 10
      /\ PaginatedProducts = SubSeq(FilteredProducts, (currentPage - 1) * 10 + 1, last)

\* C20 - Detail modal fetch on click: when the card of product i is
\* clicked the modal opens on it and its read of /products/i is enabled,
\* so that a fetch for i is in flight or its data is at hand.
C20_FetchOnClick ==
  [][ \A m \in 1..ITEMS_PER_PAGE :
        ClickCard(m) =>
          LET i == PaginatedProducts[m].id
          IN  /\ isModalOpen'
              /\ ObservedProduct(cache', mounted', isModalOpen', productId') = Some(i)
              /\ i \in ProductIds =>
                   \/ cache'[ProductKey(i)].fetching
                   \/ IsDefined(cache'[ProductKey(i)].data)
    ]_vars

\* The status a reader of an entry is given: loading while a fetch is in
\* flight, idle for an entry never fetched or removed, else the outcome of
\* the last fetch or write.
EntryStatus(q) ==
  IF q.fetching THEN "loading"
  ELSE IF q.status = "pending" THEN "idle"
  ELSE q.status

StatusTransitions ==
  { << "idle", "loading" >>,
    << "loading", "success" >>, << "loading", "error" >>,
    << "success", "loading" >>, << "error", "loading" >> }

\* C21 - Status transition discipline: in every step other than a page
\* reload, an entry's status either stays what it is or changes along
\* idle -> loading, loading -> success | error, success | error -> loading,
\* and it leaves loading for success or error only by the resolution of
\* the fetch in flight (not by a cancellation or a cache write).
C21_StatusTransitions ==
  [][ mounted' =>
        \A k \in Keys :
          /\ EntryStatus(cache'[k]) # EntryStatus(cache[k]) =>
               << EntryStatus(cache[k]), EntryStatus(cache'[k]) >> \in StatusTransitions
          /\ (cache[k].fetching /\ ~cache'[k].fetching) =>
               cache'[k].cancelled = cache[k].cancelled
    ]_vars

\* C22 - Rollback does not erase another mutation's commit: when a
\* mutation on product a fails while the modal's observers show that a
\* mutation on another product b has committed, the list after the rollback
\* still reflects that commit (b as the committed update left it, a deleted
\* b absent), and a is back to the value of the failed mutation's snapshot.
C22_RollbackKeepsCommits ==
  [][ Len(muts') = Len(muts) - 1 =>
        \A n \in 1..Len(muts) :
          (IsDefined(ListData(cache)) /\ (UpdateError(n) \/ DeleteError(n))) =>
            /\ (updObs.status = "success" /\ updObs.id # muts[n].id) =>
                 Elem(Get(ListData(cache')), updObs.id) = Elem(Get(ListData(cache)), updObs.id)
            /\ ( /\ delObs.status = "success" /\ delObs.id # muts[n].id
                 /\ delObs.id \notin Ids(Get(ListData(cache))) ) =>
                 delObs.id \notin Ids(Get(ListData(cache')))
            /\ IsDefined(muts[n].context.previousProducts) =>
                 Elem(Get(ListData(cache')), muts[n].id)
                   = Elem(Get(muts[n].context.previousProducts), muts[n].id)
    ]_vars

\* The list element of product i shows the fields d wrote.
ShowsFields(list, i, d) ==
  /\ IsDefined(list)
  /\ IsDefined(Elem(Get(list), i))
  /\ \A f \in DOMAIN d : Get(Elem(Get(list), i))[f] = d[f]

\* C23 - Optimistic value is stable while the mutation is in flight: in
\* every state in which an update of product i is in flight whose
\* optimistic apply wrote its fields into the list element of i (and no
\* other mutation on i is in flight), that element still shows those
\* fields, whatever reads started or resolved since the apply.
C23_OptimisticValueStable ==
  \A n \in 1..Len(muts) :
    ( /\ muts[n].kind = "update"
      /\ \A m \in 1..Len(muts) : m # n => muts[m].id # muts[n].id
      /\ IsDefined(muts[n].context.previousProducts)
      /\ muts[n].id \in Ids(Get(muts[n].context.previousProducts)) ) =>
        ShowsFields(ListData(cache), muts[n].id, Get(muts[n].data))

\* What a step of a mutation on product i must leave alone: the list
\* elements of the other products and their order, the categories entry,
\* the data of the other products' detail entries.
FrameHolds(i) ==
  /\ IsDefined(ListData(cache)) =>
       /\ IsDefined(ListData(cache'))
       /\ FilterOut(Get(ListData(cache')), i) = FilterOut(Get(ListData(cache)), i)
  /\ cache'[CATEGORIES] = cache[CATEGORIES]
  /\ \A j \in ProductIds \ { i } : DetailData(cache', j) = DetailData(cache, j)

\* The list has the same ids at the same positions after the step.
SameIds ==
  IsDefined(ListData(cache)) =>
    /\ IsDefined(ListData(cache'))
    /\ Len(Get(ListData(cache'))) = Len(Get(ListData(cache)))
    /\ \A m \in 1..Len(Get(ListData(cache))) :
         Get(ListData(cache'))[m].id = Get(ListData(cache))[m].id

\* C24 - Mutation frame: every step of an update or delete on product i
\* (optimistic apply, commit with any answer of the server, rollback)
\* leaves the list elements of the other products unchanged and in their
\* order, leaves the categories entry and the other products' detail data
\* unchanged, and for an update keeps the list's length and ids.
C24_MutationFrame ==
  [][ /\ Len(muts') = Len(muts) + 1 =>
           /\ FrameHolds(Started.id)
           /\ Started.kind = "update" => SameIds
      /\ Len(muts') = Len(muts) - 1 =>
           \A n \in 1..Len(muts) :
             /\ ( \/ UpdateError(n)
                  \/ \E r \in UpdateResponses(muts[n].id, Payloads) : UpdateSuccess(n, r) ) =>
                  FrameHolds(muts[n].id) /\ SameIds
             /\ (DeleteSuccess(n) \/ DeleteError(n)) => FrameHolds(muts[n].id)
    ]_vars

\* C25 - Current page stays in range: in every state of the product list
\* 1 <= currentPage <= max(1, totalPages), and a non-empty filtered list
\* never renders an empty page.
C25_CurrentPageInRange ==
  /\ 1 <= currentPage
  /\ currentPage <= (IF TotalPages > 1 THEN TotalPages ELSE 1)
  /\ Len(FilteredProducts) > 0 => Len(PaginatedProducts) > 0

\* The provider's state and the stored session agree.
AuthConsistent ==
  /\ isLoggedIn <=> IsDefined(user)
  /\ isLoggedIn =>
       /\ IsDefined(storage)
       /\ ParsedProperty(Get(storage), "username") = user
       /\ ParsedProperty(Get(storage), "isLoggedIn") = Some(TRUE)

\* C26 - Auth state consistency: in every state reached through logins,
\* logouts, page refreshes and mount-time restores, isLoggedIn is true
\* exactly when user is set, and then the storage holds a session entry
\* for that user; a login whose credentials do not match returns false
\* and leaves isLoggedIn, user and the stored session as they were.
C26_AuthConsistency ==
  /\ []AuthConsistent
  /\ [][ \A username \in Usernames : \A password \in Passwords :
           (~(username = "user" /\ password = "password") /\ Login(username, password)) =>
             /\ loginResult' = Some(FALSE)
             /\ UNCHANGED << isLoggedIn, user, storage >>
       ]_vars

\* Logged in as "user" with the session stored, right after a login with
\* other credentials was turned down.
C26_Witness ==
  /\ ~loading
  /\ loginResult = Some(FALSE)
  /\ isLoggedIn
  /\ user = Some("user")
  /\ IsDefined(storage)
  /\ ParsedProperty(Get(storage), "username") = Some("user")

====
